---- MODULE Spec2Model ----
(***************************************************************************)
(* Model of the Stellar account manager.                                   *)
(*                                                                         *)
(* Part I  (specification Spec): the route handlers.  The four that submit *)
(*   a transaction: POST /api/trustlines/remove, /api/claimable/claim,     *)
(*   /api/claimable/reject and /api/trustlines/send; and the three that    *)
(*   list: POST /api/trustlines/load, /api/claimable/load and              *)
(*   /api/transactions/history.  One request is followed from its arrival  *)
(*   to its response; every await on Horizon (loadAccount, a call builder's *)
(*   call(), submitTransaction) is a suspension point and therefore an     *)
(*   action boundary.                                                      *)
(*                                                                         *)
(* Part II (specification SpecUI): the list components TrustlineManager,   *)
(*   ClaimableBalances and UnifiedClaimableBalances with their selection   *)
(*   state, single-item handlers and sequential bulk loop.                 *)
(*                                                                         *)
(* Part III (specification SpecPage, with fairness SpecPageLive): the Home  *)
(*   page (secret key, authentication, network) and the load hook of the   *)
(*   list component it shows, at the level of renders and effects, each    *)
(*   load request carrying the network it was issued for.                  *)
(*                                                                         *)
(* Strings that the code inspects (split, includes, template literals)     *)
(* are sequences of tokens, so that the inspection is computed.            *)
(***************************************************************************)
EXTENDS Integers, Sequences, FiniteSets, TLC

VARIABLES
    \* ---- route handler (server side) ----
    pc,         \* position of the handler: idle, loadAccount, loadBalance, submit, done
    req,        \* the parsed request: [op, body]
    calls,      \* Horizon calls issued so far by this invocation, in order
    account,    \* the AccountResponse held by the handler (balances), or NoAccount
    record,     \* the claimable-balance record held by the handler, or NoRecord
    tx,         \* operations of the transaction that was built (<<>>: none built)
    resp,       \* the NextResponse returned, or NoResp
    horizonError, \* the error thrown by the Horizon call that failed, or NoError
    page,       \* the page of records held by a listing handler, or NoPage
    \* ---- list component (client side) ----
    comp,       \* which component is mounted: TM, CB or UCB
    items,      \* trustlines / balances state of the hook: the loaded list
    selected,   \* selected: Set<string>
    balanceActions, \* balanceActions: the ids mapped to "reject" (all others: claim)
    processing, \* removing / processing: the id set by the last single click, 0 = null
    bulkFlag,   \* bulkRemoving / bulkProcessing
    bulk,       \* the running handleBulk* invocation: its locals and position, with
                \* the targets it has fetched (attempted) and how each fetch ended (outcomes)
    inflight,   \* fetches to transaction routes awaiting their response (a bag)
    loads,      \* handleLoad / load* invocations awaiting the load route, per caller
    loading,    \* loading state of the hook
    \* ---- Home page (client side) ----
    home,       \* state of Home: secretKey, isAuthenticated, error, network, and the
                \* handler that ran last
    requests,   \* load requests of the hook awaiting their response, per network
                \* they were issued for
    effect      \* the shown component: a render is due, the dependencies its load
                \* effect saw last, and the network the list on display was loaded for

routeVars == <<pc, req, calls, account, record, tx, resp, horizonError, page>>
uiVars == <<comp, items, selected, balanceActions, processing, bulkFlag, bulk, inflight, loads, loading>>
pageVars == <<home, requests, effect>>
vars == <<pc, req, calls, account, record, tx, resp, horizonError, page,
          comp, items, selected, balanceActions, processing, bulkFlag, bulk, inflight, loads, loading,
          home, requests, effect>>

----------------------------------------------------------------------------
(* Bounds of the model *)

\* balance lines in an account snapshot
MaxLines == 2
\* items a list component can hold, hence targets of one bulk run
MaxItems == 3
\* single-item handler invocations that may be pending together
MaxSingles == 2
\* loads started by the Load button or by an effect that may be pending together
MaxLoads == 1
\* records in a page of claimable balances
MaxPage == 2
\* load requests of one hook that may be awaiting their response together
MaxRequests == 2

----------------------------------------------------------------------------
(* Program constants *)

\* secretKey.length !== 56
SecretLen == 56

----------------------------------------------------------------------------
(* Strings as token sequences *)

\* String.prototype.includes(word), case-sensitive
Includes(msg, word) == \E i \in 1..Len(msg) : msg[i] = word

\* JavaScript truthiness of a string held as a token sequence
Truthy(s) == s # <<>>

RECURSIVE CountColons(_)
CountColons(s) ==
    IF s = <<>> THEN 0
    ELSE (IF Head(s) = ":" THEN 1 ELSE 0) + CountColons(Tail(s))

\* s.split(":") : the parts between the colons
RECURSIVE Split(_)
Split(s) ==
    IF CountColons(s) = 0 THEN <<s>>
    ELSE LET k == CHOOSE i \in 1..Len(s) : s[i] = ":" /\ \A j \in 1..(i-1) : s[j] # ":"
         IN  <<SubSeq(s, 1, k-1)>> \o Split(SubSeq(s, k+1, Len(s)))

----------------------------------------------------------------------------
(* Part I: inputs of the route handlers *)

\* the routes that submit a transaction, and the routes that list
TxOps == {"remove", "claim", "reject", "send"}
ListOps == {"loadTrustlines", "loadClaimable", "history"}
Ops == TxOps \cup ListOps

\* A secret key string, described by what the code and the SDK look at:
\* its first character, its length and whether its body decodes with a
\* correct checksum.  "S" followed by 55 "A" is [first S, len 56, not ok].
SecretLens == {0, SecretLen - 1, SecretLen, SecretLen + 1}

Secrets ==
    {s \in [first : {"", "S", "G"}, len : SecretLens, checksumOk : BOOLEAN] :
        /\ (s.len = 0) <=> (s.first = "")
        /\ s.checksumOk => s.len = SecretLen}

EmptySecret == [first |-> "", len |-> 0, checksumOk |-> FALSE]

\* secretKey.startsWith('S')
StartsWithS(s) == s.first = "S"

\* the pre-check of the routes: !secretKey.startsWith('S') || secretKey.length !== 56
PreCheckFails(s) == ~StartsWithS(s) \/ s.len # SecretLen

\* Keypair.fromSecret(secretKey) returns a keypair (does not throw)
FromSecretOk(s) == s.first = "S" /\ s.len = SecretLen /\ s.checksumOk

NetworkValues == {"", "public", "testnet", "mainnet"}

AssetCodes == {"USD", "EUR"}
Issuer == "GISSUER"
BalanceIdValue == "00000000ab"
Recipient == "GDEST"
Sponsor == "GSPONSOR"
PublicKey == "GCALLER"

\* decimal amount strings, one character per element
Zero1 == <<"0">>
Zero7 == <<"0", ".", "0", "0", "0", "0", "0", "0", "0">>
Ten5 == <<"1", "0", ".", "5", "0", "0", "0", "0", "0", "0">>
BalanceStrings == {Zero1, Zero7, Ten5}

\* the numeric value of a decimal string is zero
IsZeroAmount(a) == \A i \in 1..Len(a) : a[i] \in {"0", "."}

\* request bodies; a missing field is the empty string
RemoveBodies ==
    [secretKey : Secrets, network : NetworkValues, assetCode : {"", "USD"},
     assetIssuer : {"", Issuer}, balanceId : {""}, recipientAddress : {""}, amount : {<<>>},
     address : {""}]

BalanceBodies ==
    [secretKey : Secrets, network : NetworkValues, assetCode : {""},
     assetIssuer : {""}, balanceId : {"", BalanceIdValue}, recipientAddress : {""}, amount : {<<>>},
     address : {""}]

SendBodies ==
    [secretKey : Secrets, network : NetworkValues, assetCode : {"", "XLM", "USD"},
     assetIssuer : {"", Issuer}, balanceId : {""}, recipientAddress : {"", Recipient},
     amount : {<<>>, Ten5}, address : {""}]

\* trustlines/load, claimable/load: { secretKey, network }
LoadBodies ==
    [secretKey : Secrets, network : NetworkValues, assetCode : {""},
     assetIssuer : {""}, balanceId : {""}, recipientAddress : {""}, amount : {<<>>},
     address : {""}]

\* transactions/history: { address, network }
HistoryBodies ==
    [secretKey : {EmptySecret}, network : NetworkValues, assetCode : {""},
     assetIssuer : {""}, balanceId : {""}, recipientAddress : {""}, amount : {<<>>},
     address : {"", PublicKey}]

Bodies(op) ==
    CASE op = "remove" -> RemoveBodies
      [] op \in {"claim", "reject"} -> BalanceBodies
      [] op = "send" -> SendBodies
      [] op \in {"loadTrustlines", "loadClaimable"} -> LoadBodies
      [] op = "history" -> HistoryBodies

NoBody ==
    [secretKey |-> EmptySecret, network |-> "", assetCode |-> "", assetIssuer |-> "",
     balanceId |-> "", recipientAddress |-> "", amount |-> <<>>, address |-> ""]

\* json: request.json() returned the body (FALSE: it threw)
NoReq == [op |-> "none", body |-> NoBody, json |-> FALSE]

----------------------------------------------------------------------------
(* Horizon: account snapshots, claimable-balance records, errors *)

NativeLine == [asset_type |-> "native", asset_code |-> "", asset_issuer |-> "", balance |-> Ten5]

CreditLines ==
    {[asset_type |-> "credit_alphanum4", asset_code |-> c, asset_issuer |-> Issuer, balance |-> b] :
        c \in AssetCodes, b \in BalanceStrings}

Lines == {NativeLine} \cup CreditLines

\* account.balances: at most one line per asset
BalanceLists ==
    {l \in UNION {[1..n -> Lines] : n \in 0..MaxLines} :
        \A i, j \in 1..Len(l) : i # j => l[i].asset_code # l[j].asset_code}

NoAccount == [loaded |-> FALSE, balances |-> <<>>]

\* record.asset as Horizon sends it ("native" or "CODE:ISSUER"), and shapes
\* that are neither: a missing value, a bare code, three parts
AssetNative == <<"native">>
AssetCredit == <<"USD", ":", Issuer>>
AssetBare == <<"USD">>
AssetThree == <<"USD", ":", Issuer, ":", "x">>
AssetStrings == {AssetNative, AssetCredit, AssetBare, AssetThree, <<>>}

Records ==
    [loaded : {TRUE}, asset : AssetStrings, amount : {Ten5}, sponsor : {Sponsor},
     claimants : {{PublicKey}, {Sponsor}}]

NoRecord ==
    [loaded |-> FALSE, asset |-> <<>>, amount |-> <<>>, sponsor |-> "", claimants |-> {}]

\* a page of claimable-balance records as claimableBalances().claimant().call()
\* returns it; the id of a record is its position in the page
PageShapes ==
    [asset : {AssetNative, AssetCredit, AssetBare, AssetThree, <<>>},
     claimants : {{}, {PublicKey}, {Sponsor}, {PublicKey, Sponsor}}]

ClaimablePages ==
    UNION {{[i \in 1..n |-> [id |-> i, asset |-> f[i].asset, amount |-> Ten5,
                             sponsor |-> Sponsor, claimants |-> f[i].claimants]] :
                f \in [1..n -> PageShapes]} : n \in 0..MaxPage}

\* transactionsResponse.records of transactions().forAccount(address).call()
HistoryPages == {<<>>, <<[id |-> 1, successful |-> TRUE]>>, <<[id |-> 1, successful |-> FALSE]>>}

NoPage == [loaded |-> FALSE, records |-> <<>>]

\* A thrown error: e.message, e.response?.status (0: no response),
\* e.response?.data?.title, e.response?.data?.extras?.result_codes ("" : none)
Err(m, st, ti, rc) == [message |-> m, status |-> st, title |-> ti, codes |-> rc]

NotFoundError == Err(<<"Not Found">>, 404, <<"Resource", "Missing">>, "")
NetworkError == Err(<<"Network", "Error">>, 0, <<>>, "")
BadRequestError == Err(<<"Bad", "Request">>, 400, <<"Transaction", "Failed">>, "tx_failed")

\* submitTransaction for a payment whose destination account does not exist:
\* Horizon answers 400 with result code op_no_destination
NoDestinationError == Err(<<"Bad", "Request">>, 400, <<"Transaction", "Failed">>, "op_no_destination")

\* no error was thrown
NoError == Err(<<>>, 0, <<>>, "")

\* what request.json() throws for a body that is not JSON (SyntaxError)
ParseError == Err(<<"Unexpected", "end", "of", "JSON", "input">>, 0, <<>>, "")

\* what loadAccount and a call builder's call() may throw
LoadErrors == {NotFoundError, NetworkError}
\* what submitTransaction may throw
SubmitErrors == {BadRequestError, NoDestinationError, NetworkError}

\* what Keypair.fromSecret may throw; which one depends on the SDK's decoder
KeyErrors ==
    {Err(<<"invalid", "checksum">>, 0, <<>>, ""),
     Err(<<"invalid", "version", "byte">>, 0, <<>>, ""),
     Err(<<"invalid", "encoded", "string">>, 0, <<>>, ""),
     Err(<<"Invalid", "character">>, 0, <<>>, "")}

\* what build() throws for a networkPassphrase that is not a string
PassphraseError == Err(<<"Invalid", "passphrase", "provided", "to", "Transaction">>, 0, <<>>, "")

\* sourceAccount.operations.payment is not a function (TypeError)
NotAFunctionError == Err(<<"sourceAccount.operations.payment", "is", "not", "a", "function">>, 0, <<>>, "")

\* what Operation.payment throws for an amount it does not accept
AmountError == Err(<<"amount", "argument", "must", "be", "positive">>, 0, <<>>, "")

----------------------------------------------------------------------------
(* Responses *)

\* data: the list in the payload of a listing route (trustlines, balances, transactions)
NoResp == [status |-> 0, error |-> <<>>, success |-> FALSE, message |-> <<>>, data |-> <<>>]

\* NextResponse.json({ error }, { status })
ErrorResponse(msg, st) ==
    [status |-> st, error |-> msg, success |-> FALSE, message |-> <<>>, data |-> <<>>]

\* NextResponse.json({ success: true, message, hash })
SuccessResponse(msg) ==
    [status |-> 200, error |-> <<>>, success |-> TRUE, message |-> msg, data |-> <<>>]

\* NextResponse.json({ trustlines }) / ({ balances }) / ({ transactions, count })
ListResponse(list) ==
    [status |-> 200, error |-> <<>>, success |-> FALSE, message |-> <<>>, data |-> list]

MissingFields == ErrorResponse(<<"Missing", "required", "fields">>, 400)
MissingParameters == ErrorResponse(<<"Missing", "required", "parameters">>, 400)
InvalidSecret == ErrorResponse(<<"Invalid", "secret", "key", "format">>, 400)
InvalidNetwork == ErrorResponse(<<"Invalid", "network">>, 400)
IssuerRequired == ErrorResponse(<<"Asset", "issuer", "is", "required">>, 400)
MissingAddress == ErrorResponse(<<"Missing", "address", "parameter">>, 400)
RecipientNotFound == ErrorResponse(<<"Recipient", "account", "not", "found">>, 404)

----------------------------------------------------------------------------
(* Operations of a transaction *)

\* new Asset(code, issuer); code and issuer are token sequences
Asset(code, issuer) == [code |-> code, issuer |-> issuer]
\* Asset.native()
NativeAsset == Asset(<<"XLM">>, <<>>)
\* let asset: any = null
NullAsset == Asset(<<>>, <<>>)

\* limit: "922337203685.4775807"
MaxLimit == <<"922337203685.4775807">>

Payment(dest, asset, amount) ==
    [type |-> "payment", destination |-> dest, asset |-> asset, amount |-> amount,
     limit |-> <<>>, balanceId |-> ""]

ChangeTrust(asset, limit) ==
    [type |-> "changeTrust", destination |-> "", asset |-> asset, amount |-> <<>>,
     limit |-> limit, balanceId |-> ""]

ClaimClaimableBalance(id) ==
    [type |-> "claimClaimableBalance", destination |-> "", asset |-> NullAsset, amount |-> <<>>,
     limit |-> <<>>, balanceId |-> id]

----------------------------------------------------------------------------
(* Validation preamble of the routes *)

\* the first if of each handler: a required field is falsy
RequiredMissing(op, b) ==
    CASE op = "remove" ->
            b.secretKey.len = 0 \/ b.network = "" \/ b.assetCode = "" \/ b.assetIssuer = ""
      [] op \in {"claim", "reject"} ->
            b.secretKey.len = 0 \/ b.network = "" \/ b.balanceId = ""
      [] op = "send" ->
            b.secretKey.len = 0 \/ b.recipientAddress = "" \/ b.assetCode = "" \/ b.amount = <<>>
      [] op \in {"loadTrustlines", "loadClaimable"} ->
            b.secretKey.len = 0 \/ b.network = ""
      [] op = "history" ->
            b.address = ""

\* variant: the catch around Keypair.fromSecret passes the SDK's error on
KeypairFailureRaw == ErrorResponse(<<"invalid", "checksum">>, 500)

\* the response of the catch around Keypair.fromSecret
KeypairFailure == InvalidSecret

\* remove, claim, reject, trustlines/load, claimable/load: the checks up to and
\* including Keypair.fromSecret; NoResp when the handler goes on to its first
\* Horizon call
Validate(op, b) ==
    IF RequiredMissing(op, b) THEN MissingFields
    ELSE IF PreCheckFails(b.secretKey) THEN InvalidSecret
    ELSE IF b.network # "public" /\ b.network # "testnet" THEN InvalidNetwork
    ELSE IF ~FromSecretOk(b.secretKey) THEN KeypairFailure
    ELSE NoResp

\* send: the single catch of the handler
SendCatch(e) ==
    IF Includes(e.message, "Invalid") THEN ErrorResponse(e.message, 400)
    ELSE IF e.status = 400 THEN ErrorResponse(IF Truthy(e.title) THEN e.title ELSE e.message, 400)
    ELSE IF Includes(e.message, "Not Found") THEN RecipientNotFound
    ELSE ErrorResponse(<<"Failed", "to", "send", "asset">>, 500)

\* send: the responses the handler can give before loadAccount; {NoResp}
\* when it goes on.  Which error fromSecret throws is the SDK's choice.
SendValidate(b) ==
    IF RequiredMissing("send", b) THEN {MissingParameters}
    ELSE IF ~FromSecretOk(b.secretKey) THEN {SendCatch(e) : e \in KeyErrors}
    ELSE {NoResp}

\* history: the check of the address; NoResp when the handler goes on
HistoryValidate(b) ==
    IF RequiredMissing("history", b) THEN MissingAddress ELSE NoResp

\* history: the single catch of the handler; error.status is not set on the
\* errors the SDK or request.json() throw, so the status is the default 500
HistoryCatch(e) ==
    ErrorResponse(IF Truthy(e.message) THEN e.message
                  ELSE <<"Failed", "to", "fetch", "transaction", "history">>, 500)

\* the responses a request can get before any Horizon call
EarlyResponses(op, b) ==
    CASE op = "send" -> SendValidate(b)
      [] op = "history" -> {HistoryValidate(b)}
      [] OTHER -> {Validate(op, b)}

\* variant: the outermost catch lets the exception go
OuterCatchRethrows(op, e) == NoResp

\* the outermost catch of a handler: the response for an exception that no
\* inner try caught
OuterCatch(op, e) ==
    CASE op = "send" -> SendCatch(e)
      [] op = "history" -> HistoryCatch(e)
      [] OTHER -> ErrorResponse(e.message, 500)

\* variant: claim and reject fetch the record before the account
FirstCallRecord(op) ==
    CASE op = "loadClaimable" -> "loadClaimable"
      [] op = "history" -> "loadTransactions"
      [] op \in {"claim", "reject"} -> "loadBalance"
      [] OTHER -> "loadAccount"

\* the first Horizon call of a handler
FirstCall(op) ==
    CASE op = "loadClaimable" -> "loadClaimable"
      [] op = "history" -> "loadTransactions"
      [] OTHER -> "loadAccount"

----------------------------------------------------------------------------
(* The network of a request: Horizon endpoint and network passphrase *)

\* the value of a property that an object does not have
Undefined == "undefined"

\* const NETWORKS = { public: Networks.PUBLIC, testnet: Networks.TESTNET }
NETWORKS(network) ==
    CASE network = "public" -> "Public Global Stellar Network ; September 2015"
      [] network = "testnet" -> "Test SDF Network ; September 2015"
      [] OTHER -> Undefined

\* const SERVERS = { public: ..., testnet: ... }
SERVERS(network) ==
    CASE network = "public" -> "https://horizon.stellar.org"
      [] network = "testnet" -> "https://horizon-testnet.stellar.org"
      [] OTHER -> Undefined

\* the URL the handler of op gives to new Horizon.Server; send and history
\* choose with network === "testnet" ? ... : ...
ServerUrl(op, network) ==
    IF op \in {"send", "history"}
    THEN IF network = "testnet" THEN SERVERS("testnet") ELSE SERVERS("public")
    ELSE SERVERS(network)

\* the networkPassphrase the handler of op gives to TransactionBuilder; send
\* reads Networks.TESTNET_NETWORK_PASSPHRASE / Networks.PUBLIC_NETWORK_PASSPHRASE,
\* which Networks does not have
NetworkPassphrase(op, network) ==
    IF op = "send" THEN Undefined ELSE NETWORKS(network)

----------------------------------------------------------------------------
(* Composition of the operation lists *)

\* balances.find(b => b.asset_code === assetCode && b.asset_issuer === assetIssuer):
\* index of the first matching line, 0 when there is none
FindTrustline(balances, code, issuer) ==
    LET hits == {i \in 1..Len(balances) :
                    balances[i].asset_code = code /\ balances[i].asset_issuer = issuer}
    IN  IF hits = {} THEN 0 ELSE CHOOSE i \in hits : \A j \in hits : i <= j

\* let trustlineBalance = "0"; if (trustline && trustline.balance && trustline.balance !== "0") ...
TrustlineBalance(balances, code, issuer) ==
    LET i == FindTrustline(balances, code, issuer)
    IN  IF i # 0 /\ Truthy(balances[i].balance) /\ balances[i].balance # Zero1
        THEN balances[i].balance
        ELSE Zero1

\* variant: the trust change is added before the payment
RemovePlanTrustFirst(code, issuer, balances) ==
    LET asset == Asset(<<code>>, <<issuer>>)
        trustlineBalance == TrustlineBalance(balances, code, issuer)
    IN  <<ChangeTrust(asset, Zero1)>>
        \o (IF trustlineBalance # Zero1
            THEN <<Payment(issuer, asset, trustlineBalance)>>
            ELSE <<>>)

\* remove: the operations added to the builder, in order
RemovePlan(code, issuer, balances) ==
    LET asset == Asset(<<code>>, <<issuer>>)
        trustlineBalance == TrustlineBalance(balances, code, issuer)
    IN  (IF trustlineBalance # Zero1
         THEN <<Payment(issuer, asset, trustlineBalance)>>
         ELSE <<>>)
        \o <<ChangeTrust(asset, Zero1)>>

\* variant: the first two parts are taken whatever the number of parts
ParseAssetLoose(a) ==
    IF Truthy(a) /\ a # AssetNative
    THEN LET assetParts == Split(a)
         IN  IF Len(assetParts) >= 2 THEN Asset(assetParts[1], assetParts[2]) ELSE NullAsset
    ELSE NullAsset

\* claim, reject: parse balanceRecord.asset
ParseAsset(a) ==
    IF Truthy(a) /\ a # AssetNative
    THEN LET assetParts == Split(a)
         IN  IF Len(assetParts) = 2 THEN Asset(assetParts[1], assetParts[2]) ELSE NullAsset
    ELSE NullAsset

\* variant: the trustline is added after the claim
ClaimPlanClaimFirst(rec, balanceId) ==
    LET asset == ParseAsset(rec.asset)
    IN  <<ClaimClaimableBalance(balanceId)>>
        \o (IF asset # NullAsset THEN <<ChangeTrust(asset, MaxLimit)>> ELSE <<>>)

\* claim: the operations added to the builder, in order
ClaimPlan(rec, balanceId) ==
    LET asset == ParseAsset(rec.asset)
    IN  (IF asset # NullAsset THEN <<ChangeTrust(asset, MaxLimit)>> ELSE <<>>)
        \o <<ClaimClaimableBalance(balanceId)>>

\* variant: the amount is not paid back to the sponsor
RejectPlanNoRefund(rec, balanceId) ==
    LET asset == ParseAsset(rec.asset)
        assetOrNative == IF asset # NullAsset THEN asset ELSE NativeAsset
    IN  (IF asset # NullAsset THEN <<ChangeTrust(asset, MaxLimit)>> ELSE <<>>)
        \o <<ClaimClaimableBalance(balanceId),
             ChangeTrust(assetOrNative, Zero1)>>

\* reject: the operations added to the builder, in order
RejectPlan(rec, balanceId) ==
    LET asset == ParseAsset(rec.asset)
        assetOrNative == IF asset # NullAsset THEN asset ELSE NativeAsset
    IN  (IF asset # NullAsset THEN <<ChangeTrust(asset, MaxLimit)>> ELSE <<>>)
        \o <<ClaimClaimableBalance(balanceId),
             Payment(rec.sponsor, assetOrNative, rec.amount),
             ChangeTrust(assetOrNative, Zero1)>>

\* send: the single payment
SendPlan(b) ==
    LET asset == IF b.assetCode = "XLM" THEN NativeAsset ELSE Asset(<<b.assetCode>>, <<b.assetIssuer>>)
    IN  <<Payment(b.recipientAddress, asset, b.amount)>>

\* Operation.payment refuses an amount that is not positive; whether a
\* given SDK build enforces it is left open
PaymentMayThrow(plan) ==
    \E i \in 1..Len(plan) : plan[i].type = "payment" /\ IsZeroAmount(plan[i].amount)

\* the catch around build/sign/submit of remove
RemoveCatch(e) == ErrorResponse(e.message, 400)

\* the catch around build/sign/submit of claim and reject
BalanceCatch(e) ==
    IF e.codes # ""
    THEN ErrorResponse(<<"Transaction failed:", e.codes>>, 400)
    ELSE ErrorResponse(e.message, 400)

TxCatch(op, e) ==
    CASE op = "remove" -> RemoveCatch(e)
      [] op \in {"claim", "reject"} -> BalanceCatch(e)
      [] op = "send" -> SendCatch(e)

----------------------------------------------------------------------------
(* Composition of the lists of the listing routes *)

\* trustlines/load: account.balances.filter(asset_type !== "native").map(...)
ListTrustlines(balances) ==
    LET kept == SelectSeq(balances, LAMBDA l : l.asset_type # "native")
    IN  [i \in 1..Len(kept) |->
            [assetCode |-> kept[i].asset_code, assetIssuer |-> kept[i].asset_issuer,
             balance |-> kept[i].balance]]

\* variant: every record that has a claimant is kept
CanClaimAnyone(rec, publicKey) == rec.claimants # {}

\* claimable/load: record.claimants && record.claimants.some(c => c.destination === publicKey)
CanClaim(rec, publicKey) == publicKey \in rec.claimants

\* claimable/load: the object returned for a record that is kept
ListedBalance(rec) ==
    LET asset == ParseAsset(rec.asset)
    IN  [id |-> rec.id, amount |-> rec.amount,
         asset |-> IF asset # NullAsset THEN asset.code ELSE <<"XLM">>,
         assetIssuer |-> IF asset # NullAsset THEN asset.issuer ELSE <<"native">>,
         sponsor |-> rec.sponsor]

\* claimable/load: records.map(... canClaim ? {...} : null).filter(b => b !== null)
ListBalances(records, publicKey) ==
    LET kept == SelectSeq(records, LAMBDA r : CanClaim(r, publicKey))
    IN  [i \in 1..Len(kept) |-> ListedBalance(kept[i])]

\* history: transactionsResponse.records.map(...)
ListTransactions(records) ==
    [i \in 1..Len(records) |-> [id |-> records[i].id, successful |-> records[i].successful]]

----------------------------------------------------------------------------
(* The handler, one action per stretch between awaits *)

Finish(r) ==
    /\ pc' = "done"
    /\ resp' = r

\* variant: the call is issued a second time
AwaitTwice(call) ==
    /\ pc' = call
    /\ calls' = calls \o <<call, call>>
    /\ resp' = resp

\* issue a Horizon call and suspend
Await(call) ==
    /\ pc' = call
    /\ calls' = Append(calls, call)
    /\ resp' = resp

\* build, sign and submit the operations, or fall into the catch when an
\* operation cannot be constructed
BuildSignSubmit(op, plan) ==
    \E throws \in (IF PaymentMayThrow(plan) THEN BOOLEAN ELSE {FALSE}) :
        IF throws
        THEN /\ Finish(TxCatch(op, AmountError))
             /\ UNCHANGED <<calls, tx>>
        ELSE /\ tx' = plan
             /\ Await("submit")

\* POST: request.json(), validation, Keypair.fromSecret, then the first Horizon call
Post ==
    /\ pc = "idle"
    /\ \E op \in Ops :
         \/ \* request.json() threw
            /\ req' = [op |-> op, body |-> NoBody, json |-> FALSE]
            /\ Finish(OuterCatch(op, ParseError))
            /\ UNCHANGED calls
         \/ \E b \in Bodies(op) :
              /\ req' = [op |-> op, body |-> b, json |-> TRUE]
              /\ \E r \in EarlyResponses(op, b) :
                   IF r # NoResp
                   THEN Finish(r) /\ UNCHANGED calls
                   ELSE Await(FirstCall(op))
    /\ UNCHANGED <<account, record, tx, horizonError, page, uiVars, pageVars>>

\* the response to a failed load of the caller's account
AccountErrorResponse(op, e) ==
    IF op = "send"
    THEN SendCatch(e)
    ELSE ErrorResponse(<<"Account error:">> \o e.message, 400)

\* server.loadAccount threw
AccountFailed ==
    /\ pc = "loadAccount"
    /\ \E e \in LoadErrors :
         /\ horizonError' = e
         /\ Finish(AccountErrorResponse(req.op, e))
    /\ UNCHANGED <<req, calls, account, record, tx, page, uiVars, pageVars>>

\* server.loadAccount returned; the handler runs to its next await
AccountLoaded ==
    /\ pc = "loadAccount"
    /\ \E bl \in BalanceLists :
         /\ account' = [loaded |-> TRUE, balances |-> bl]
         /\ CASE req.op = "remove" ->
                    BuildSignSubmit("remove", RemovePlan(req.body.assetCode, req.body.assetIssuer, bl))
              [] req.op \in {"claim", "reject"} ->
                    Await("loadBalance") /\ UNCHANGED tx
              [] req.op = "send" ->
                    IF req.body.assetCode # "XLM" /\ req.body.assetIssuer = ""
                    THEN Finish(IssuerRequired) /\ UNCHANGED <<calls, tx>>
                    ELSE \E factory \in BOOLEAN :
                            \* sourceAccount.operations.payment exists or not
                            IF ~factory
                            THEN Finish(SendCatch(NotAFunctionError)) /\ UNCHANGED <<calls, tx>>
                            ELSE \E checked \in BOOLEAN :
                                    \* build() checks the type of the passphrase or not
                                    IF checked /\ NetworkPassphrase("send", req.body.network) = Undefined
                                    THEN Finish(SendCatch(PassphraseError)) /\ UNCHANGED <<calls, tx>>
                                    ELSE BuildSignSubmit("send", SendPlan(req.body))
              [] req.op = "loadTrustlines" ->
                    Finish(ListResponse(ListTrustlines(bl))) /\ UNCHANGED <<calls, tx>>
    /\ UNCHANGED <<req, record, horizonError, page, uiVars, pageVars>>

\* server.claimableBalances().claimableBalance(balanceId).call() threw
BalanceFailed ==
    /\ pc = "loadBalance"
    /\ \E e \in LoadErrors :
         /\ horizonError' = e
         /\ Finish(ErrorResponse(<<"Balance error:">> \o e.message, 400))
    /\ UNCHANGED <<req, calls, account, record, tx, page, uiVars, pageVars>>

\* variant: a record that does not name the caller as claimant is refused
BalanceLoadedIfClaimant ==
    /\ pc = "loadBalance"
    /\ \E rec \in Records :
         /\ record' = rec
         /\ IF PublicKey \in rec.claimants
            THEN BuildSignSubmit(req.op,
                    IF req.op = "claim"
                    THEN ClaimPlan(rec, req.body.balanceId)
                    ELSE RejectPlan(rec, req.body.balanceId))
            ELSE Finish(ErrorResponse(<<"Not", "a", "claimant">>, 400)) /\ UNCHANGED <<calls, tx>>
    /\ UNCHANGED <<req, account, horizonError, page, uiVars, pageVars>>

\* the record arrived; parse the asset, build, sign, submit
BalanceLoaded ==
    /\ pc = "loadBalance"
    /\ \E rec \in Records :
         /\ record' = rec
         /\ BuildSignSubmit(req.op,
                IF req.op = "claim"
                THEN ClaimPlan(rec, req.body.balanceId)
                ELSE RejectPlan(rec, req.body.balanceId))
    /\ UNCHANGED <<req, account, horizonError, page, uiVars, pageVars>>

\* server.submitTransaction returned
SubmitOk ==
    /\ pc = "submit"
    /\ Finish(SuccessResponse(
            CASE req.op = "remove" -> <<"Trustline", "removed">>
              [] req.op = "claim" -> <<"Balance", "claimed">>
              [] req.op = "reject" -> <<"Balance", "rejected">>
              [] req.op = "send" -> <<"Successfully", "sent">>))
    /\ UNCHANGED <<req, calls, account, record, tx, horizonError, page, uiVars, pageVars>>

\* server.submitTransaction threw
SubmitFailed ==
    /\ pc = "submit"
    /\ \E e \in SubmitErrors :
         /\ horizonError' = e
         /\ Finish(TxCatch(req.op, e))
    /\ UNCHANGED <<req, calls, account, record, tx, page, uiVars, pageVars>>

\* claimable/load: claimableBalances().claimant(publicKey).limit(200).call() threw
ClaimableFailed ==
    /\ pc = "loadClaimable"
    /\ \E e \in LoadErrors :
         /\ horizonError' = e
         /\ Finish(ErrorResponse(<<"Fetch error:">> \o e.message, 400))
    /\ UNCHANGED <<req, calls, account, record, tx, page, uiVars, pageVars>>

\* claimable/load: the page arrived; filter, map, return
ClaimableListed ==
    /\ pc = "loadClaimable"
    /\ \E recs \in ClaimablePages :
         /\ page' = [loaded |-> TRUE, records |-> recs]
         /\ Finish(ListResponse(ListBalances(recs, PublicKey)))
    /\ UNCHANGED <<req, calls, account, record, tx, horizonError, uiVars, pageVars>>

\* history: transactions().forAccount(address).limit(50).order("desc").call() threw
HistoryFailed ==
    /\ pc = "loadTransactions"
    /\ \E e \in LoadErrors :
         /\ horizonError' = e
         /\ Finish(HistoryCatch(e))
    /\ UNCHANGED <<req, calls, account, record, tx, page, uiVars, pageVars>>

\* history: the records arrived; map, return
HistoryListed ==
    /\ pc = "loadTransactions"
    /\ \E recs \in HistoryPages :
         /\ page' = [loaded |-> TRUE, records |-> recs]
         /\ Finish(ListResponse(ListTransactions(recs)))
    /\ UNCHANGED <<req, calls, account, record, tx, horizonError, uiVars, pageVars>>

----------------------------------------------------------------------------
(* Part II: the list components *)

Ids == 1..MaxItems

\* TrustlineManager, ClaimableBalances (mode claim or reject), UnifiedClaimableBalances
TM == [name |-> "TM", mode |-> "remove"]
CBClaim == [name |-> "CB", mode |-> "claim"]
CBReject == [name |-> "CB", mode |-> "reject"]
UCB == [name |-> "UCB", mode |-> "claim"]
Comps == {TM, CBClaim, CBReject, UCB}

RouteActions == {"remove", "claim", "reject"}

\* the routes the buttons of one row can call
RowActions(c) ==
    CASE c.name = "TM" -> {"remove"}
      [] c.name = "CB" -> {c.mode}
      [] c.name = "UCB" -> {"claim", "reject"}

\* the route a bulk run calls for a target:
\* remove / mode / balanceActions.get(balance.id) || "claim"
BulkAction(c, id, actions) ==
    CASE c.name = "TM" -> "remove"
      [] c.name = "CB" -> c.mode
      [] c.name = "UCB" -> IF id \in actions THEN "reject" ELSE "claim"

\* the fields of the JSON body the client sends to a route
RequestFields(route) ==
    CASE route = "remove" -> {"secretKey", "network", "assetCode", "assetIssuer"}
      [] route \in {"claim", "reject"} -> {"secretKey", "network", "balanceId"}
      [] route = "load" -> {"secretKey", "network"}

\* what a fetch of a transaction route can end in for the caller
Outcomes == {"ok", "http", "thrown"}

\* the lists the load route can return: none, one or MaxItems items
LoadedLists == {[i \in 1..k |-> i] : k \in {0, 1, MaxItems}}
LoadResults == [ok : {TRUE}, list : LoadedLists] \cup {[ok |-> FALSE, list |-> <<>>]}

Range(f) == {f[i] : i \in DOMAIN f}

\* Fetches in flight, as a bag (a function to counts).  A fetch is described
\* by the handler that awaits it and the route it calls; the target of a bulk
\* fetch is the last element of bulk.attempted, the target of a single-item
\* fetch is not used again by its handler.
ReqKinds == [src : {"bulk", "single"}, action : RouteActions]
EmptyBag == [k \in ReqKinds |-> 0]
BagAdd(b, k) == [b EXCEPT ![k] = @ + 1]
BagRemove(b, k) == [b EXCEPT ![k] = @ - 1]

RECURSIVE BagSize(_, _)
BagSize(b, S) ==
    IF S = {} THEN 0
    ELSE LET k == CHOOSE x \in S : TRUE IN b[k] + BagSize(b, S \ {k})

\* number of fetches in flight that come from src
InFlight(src) == BagSize(inflight, {k \in ReqKinds : k.src = src})

LoadCallers == {"single", "button", "effect"}
NoLoads == [c \in LoadCallers |-> 0]

\* single-item handler invocations that have not returned
PendingSingles == InFlight("single") + loads["single"]

BulkIdle ==
    [pc |-> "idle", targets |-> <<>>, idx |-> 0, successCount |-> 0, errors |-> <<>>,
     attempted |-> <<>>, outcomes |-> <<>>]

\* trustlines.filter(t => selected.has(id)) with the route of each target
SelectedTargets(c, list, sel, actions) ==
    LET chosen == SelectSeq(list, LAMBDA x : x \in sel)
    IN  [i \in 1..Len(chosen) |-> [id |-> chosen[i], action |-> BulkAction(c, chosen[i], actions)]]

\* variant: the catch of the loop body does not push to errors
RecordOutcomeNoCatch(b, t, outcome) ==
    [b EXCEPT !.successCount = IF outcome = "ok" THEN @ + 1 ELSE @,
              !.errors = IF outcome = "http" THEN Append(@, [id |-> t.id, kind |-> outcome]) ELSE @,
              !.outcomes = Append(@, outcome)]

\* the body of the loop after the fetch of target t settled:
\* successCount++ / errors.push(...) in the else branch / errors.push(...) in the catch
RecordOutcome(b, t, outcome) ==
    [b EXCEPT !.successCount = IF outcome = "ok" THEN @ + 1 ELSE @,
              !.errors = IF outcome = "ok" THEN @ ELSE Append(@, [id |-> t.id, kind |-> outcome]),
              !.outcomes = Append(@, outcome)]

\* variant: the loop is left at the first failure
LoopStopsOnFailure(idx, n, outcome) == idx < n /\ outcome = "ok"

\* for (const t of selected...) : there is a next iteration
LoopContinues(idx, n, outcome) == idx < n

\* variant: the fetches of all remaining targets are issued together
BulkFetchesAll(targets, idx) == [i \in 1..(Len(targets) - idx + 1) |-> idx + i - 1]

\* the targets whose fetch is issued when the loop reaches index idx:
\* one, because the fetch is awaited inside the loop
BulkFetches(targets, idx) == <<idx>>

RECURSIVE IssueAll(_, _, _)
IssueAll(bag, targets, idxs) ==
    IF idxs = <<>> THEN bag
    ELSE LET t == targets[Head(idxs)]
         IN  IssueAll(BagAdd(bag, [src |-> "bulk", action |-> t.action]),
                      targets, Tail(idxs))

IdsAt(targets, idxs) == [i \in 1..Len(idxs) |-> targets[idxs[i]].id]

\* rows whose single-item buttons are enabled: disabled={processing === id || bulkProcessing}
RowEnabled(id) == id \in Range(items) /\ processing # id /\ ~bulkFlag

\* the hook's load* after the load route answered: setItems, setLoading(false)
HookLoaded(result) ==
    /\ items' = IF result.ok THEN result.list ELSE <<>>
    /\ loading' = FALSE

\* handleLoad after load* returned: if (result) { setSelected(new Set()); ... }
HandleLoadDone(result) ==
    /\ HookLoaded(result)
    /\ selected' = IF result.ok THEN {} ELSE selected
    /\ balanceActions' = IF result.ok /\ comp.name = "UCB" THEN {} ELSE balanceActions

\* variant: the selection is not cleared after the loop
LoopDoneKeepsSelection(b) ==
    /\ bulk' = [b EXCEPT !.pc = "reload"]
    /\ selected' = selected
    /\ balanceActions' = IF comp.name = "UCB" THEN {} ELSE balanceActions
    /\ loading' = TRUE

\* the tail of handleBulk* after the loop: setSelected(new Set()), await handleLoad()
LoopDone(b) ==
    /\ bulk' = [b EXCEPT !.pc = "reload"]
    /\ selected' = {}
    /\ balanceActions' = IF comp.name = "UCB" THEN {} ELSE balanceActions
    /\ loading' = TRUE

\* checkbox of a row
ToggleSelect ==
    /\ \E id \in Ids :
         /\ RowEnabled(id)
         /\ selected' = IF id \in selected THEN selected \ {id} ELSE selected \cup {id}
    /\ UNCHANGED <<routeVars, pageVars, comp, items, balanceActions, processing, bulkFlag, bulk, inflight, loads, loading>>

\* Select All checkbox
ToggleSelectAll ==
    /\ items # <<>>
    /\ ~bulkFlag
    /\ selected' = IF Cardinality(selected) = Len(items) THEN {} ELSE Range(items)
    /\ UNCHANGED <<routeVars, pageVars, comp, items, balanceActions, processing, bulkFlag, bulk, inflight, loads, loading>>

\* Clear Selection button
ClearSelection ==
    /\ items # <<>>
    /\ selected # {}
    /\ ~bulkFlag
    /\ selected' = {}
    /\ balanceActions' = IF comp.name = "UCB" THEN {} ELSE balanceActions
    /\ UNCHANGED <<routeVars, pageVars, comp, items, processing, bulkFlag, bulk, inflight, loads, loading>>

\* handleRemoveTrustline / handleProcess up to its fetch
SingleClick ==
    /\ PendingSingles < MaxSingles
    /\ \E id \in Ids :
         \E a \in RowActions(comp) :
            /\ RowEnabled(id)
            /\ processing' = id
            /\ inflight' = BagAdd(inflight, [src |-> "single", action |-> a])
    /\ UNCHANGED <<routeVars, pageVars, comp, items, selected, balanceActions, bulkFlag, bulk, loads, loading>>

\* the fetch of a single-item handler settled
SingleResponse ==
    /\ \E k \in ReqKinds :
         /\ k.src = "single"
         /\ inflight[k] > 0
         /\ inflight' = BagRemove(inflight, k)
         /\ \E outcome \in Outcomes :
              IF outcome = "ok"
              THEN \* await handleLoad()
                   /\ loads' = [loads EXCEPT !["single"] = @ + 1]
                   /\ loading' = TRUE
                   /\ UNCHANGED processing
              ELSE \* catch, finally: setProcessing(null)
                   /\ processing' = 0
                   /\ UNCHANGED <<loads, loading>>
    /\ UNCHANGED <<routeVars, pageVars, comp, items, selected, balanceActions, bulkFlag, bulk>>

\* the reload of a single-item handler returned; finally: setProcessing(null)
SingleReloaded ==
    /\ loads["single"] > 0
    /\ \E result \in LoadResults : HandleLoadDone(result)
    /\ loads' = [loads EXCEPT !["single"] = @ - 1]
    /\ processing' = 0
    /\ UNCHANGED <<routeVars, pageVars, comp, bulkFlag, bulk, inflight>>

\* handleBulkRemove / handleBulkProcess up to its first await
BulkClick ==
    /\ items # <<>>
    /\ selected # {}
    /\ ~bulkFlag
    /\ bulkFlag' = TRUE
    /\ LET targets == SelectedTargets(comp, items, selected, balanceActions)
           first == BulkFetches(targets, 1)
       IN  IF targets = <<>>
           THEN /\ LoopDone(BulkIdle)
                /\ UNCHANGED inflight
           ELSE /\ bulk' = [BulkIdle EXCEPT !.pc = "fetch", !.targets = targets, !.idx = 1,
                                            !.attempted = IdsAt(targets, first)]
                /\ inflight' = IssueAll(inflight, targets, first)
                /\ UNCHANGED <<selected, balanceActions, loading>>
    /\ UNCHANGED <<routeVars, pageVars, comp, items, processing, loads>>

\* the fetch of the current target settled: count it, go to the next target
\* or leave the loop
BulkResponse ==
    /\ bulk.pc = "fetch"
    /\ LET t == bulk.targets[bulk.idx]
           k == [src |-> "bulk", action |-> t.action]
       IN  /\ inflight[k] > 0
           /\ \E outcome \in Outcomes :
                LET b == RecordOutcome(bulk, t, outcome)
                    nxt == BulkFetches(bulk.targets, bulk.idx + 1)
                IN  IF LoopContinues(bulk.idx, Len(bulk.targets), outcome)
                    THEN /\ bulk' = [b EXCEPT !.idx = @ + 1,
                                              !.attempted = @ \o IdsAt(bulk.targets, nxt)]
                         /\ inflight' = IssueAll(BagRemove(inflight, k), bulk.targets, nxt)
                         /\ UNCHANGED <<selected, balanceActions, loading>>
                    ELSE /\ LoopDone(b)
                         /\ inflight' = BagRemove(inflight, k)
    /\ UNCHANGED <<routeVars, pageVars, comp, items, processing, bulkFlag, loads>>

\* the reload at the end of the bulk handler returned; finally: setBulkProcessing(false)
BulkReloaded ==
    /\ bulk.pc = "reload"
    /\ \E result \in LoadResults : HandleLoadDone(result)
    /\ bulkFlag' = FALSE
    /\ bulk' = BulkIdle
    /\ UNCHANGED <<routeVars, pageVars, comp, processing, inflight, loads>>

\* Load button of TrustlineManager and ClaimableBalances: handleLoad up to its fetch
LoadClick ==
    /\ comp.name \in {"TM", "CB"}
    /\ ~loading
    /\ loads["button"] + loads["effect"] < MaxLoads
    /\ loads' = [loads EXCEPT !["button"] = @ + 1]
    /\ loading' = TRUE
    /\ UNCHANGED <<routeVars, pageVars, comp, items, selected, balanceActions, processing, bulkFlag, bulk, inflight>>

ButtonLoaded ==
    /\ loads["button"] > 0
    /\ \E result \in LoadResults : HandleLoadDone(result)
    /\ loads' = [loads EXCEPT !["button"] = @ - 1]
    /\ UNCHANGED <<routeVars, pageVars, comp, processing, bulkFlag, bulk, inflight>>

\* the load effect of TrustlineManager (mount, network change) and of
\* UnifiedClaimableBalances: load* is called directly
EffectLoad ==
    /\ comp.name \in {"TM", "UCB"}
    /\ loads["button"] + loads["effect"] < MaxLoads
    /\ loads' = [loads EXCEPT !["effect"] = @ + 1]
    /\ loading' = TRUE
    /\ UNCHANGED <<routeVars, pageVars, comp, items, selected, balanceActions, processing, bulkFlag, bulk, inflight>>

EffectLoaded ==
    /\ loads["effect"] > 0
    /\ \E result \in LoadResults : HookLoaded(result)
    /\ loads' = [loads EXCEPT !["effect"] = @ - 1]
    /\ UNCHANGED <<routeVars, pageVars, comp, selected, balanceActions, processing, bulkFlag, bulk, inflight>>

----------------------------------------------------------------------------
(* Part III: the Home page and the load effect of the component it shows *)

\* what the secret key input can hold: the secrets of Part I and a blank string
Blank == [first |-> " ", len |-> 1, checksumOk |-> FALSE]
HomeSecrets == Secrets \cup {Blank}

\* !secretKey.trim()
TrimEmpty(s) == s.len = 0 \/ s.first = " "

\* useState<"public" | "testnet">
HomeNetworks == {"public", "testnet"}

PleaseEnter == <<"Please", "enter", "your", "secret", "key">>
InvalidFormat == <<"Invalid", "secret", "key", "format">>

\* variant: only the prefix of the secret key is tested
AuthResultPrefixOnly(s) ==
    IF TrimEmpty(s) THEN [isAuthenticated |-> FALSE, error |-> PleaseEnter]
    ELSE IF ~StartsWithS(s) THEN [isAuthenticated |-> FALSE, error |-> InvalidFormat]
    ELSE [isAuthenticated |-> TRUE, error |-> <<>>]

\* handleAuthenticate: isAuthenticated and error when it returns
AuthResult(s) ==
    IF TrimEmpty(s) THEN [isAuthenticated |-> FALSE, error |-> PleaseEnter]
    ELSE IF PreCheckFails(s) THEN [isAuthenticated |-> FALSE, error |-> InvalidFormat]
    ELSE [isAuthenticated |-> TRUE, error |-> <<>>]

NoRequests == [n \in HomeNetworks |-> 0]
PendingRequests == requests["public"] + requests["testnet"]

\* a component that has not rendered yet
NoEffect == [due |-> FALSE, deps |-> "none", shownFor |-> "none"]

\* the load effect runs after a render: TrustlineManager's has the
\* dependencies [secretKey, network]; UnifiedClaimableBalances' has
\* [loadBalances], a function the hook creates anew on every render
EffectRuns(c, deps, network) ==
    IF c.name = "TM" THEN deps # network ELSE TRUE

\* state of the hook that the Home actions leave alone
listVars == <<selected, balanceActions, processing, bulkFlag, bulk, inflight, loads>>

\* onChange of the secret key input, which is rendered while not authenticated
TypeSecret ==
    /\ ~home.isAuthenticated
    /\ \E s \in HomeSecrets :
         home' = [home EXCEPT !.secretKey = s, !.error = <<>>, !.last = "type"]
    /\ UNCHANGED <<routeVars, comp, items, loading, listVars, requests, effect>>

\* Connect Account; on success Home shows the tabs and the component mounts
Authenticate ==
    /\ ~home.isAuthenticated
    /\ LET r == AuthResult(home.secretKey)
       IN  /\ home' = [home EXCEPT !.isAuthenticated = r.isAuthenticated, !.error = r.error,
                                   !.last = "authenticate"]
           /\ effect' = IF r.isAuthenticated THEN [NoEffect EXCEPT !.due = TRUE] ELSE effect
    /\ UNCHANGED <<routeVars, comp, items, loading, listVars, requests>>

\* handleLogout; the component unmounts, responses that arrive later find no
\* component
Logout ==
    /\ home.isAuthenticated
    /\ home' = [home EXCEPT !.secretKey = EmptySecret, !.isAuthenticated = FALSE,
                            !.error = <<>>, !.last = "logout"]
    /\ items' = <<>>
    /\ loading' = FALSE
    /\ requests' = NoRequests
    /\ effect' = NoEffect
    /\ UNCHANGED <<routeVars, comp, listVars>>

\* NetworkSelector onChange={setNetwork}; Home renders the component again
SetNetwork ==
    /\ home.isAuthenticated
    /\ \E n \in HomeNetworks :
         /\ n # home.network
         /\ home' = [home EXCEPT !.network = n, !.last = "network"]
    /\ effect' = [effect EXCEPT !.due = TRUE]
    /\ UNCHANGED <<routeVars, comp, items, loading, listVars, requests>>

\* the component renders and its load effect runs if its dependencies
\* changed: load*() up to its fetch, setLoading(true) asking for another
\* render when loading was false
Render ==
    /\ home.isAuthenticated
    /\ effect.due
    /\ IF EffectRuns(comp, effect.deps, home.network)
       THEN /\ PendingRequests < MaxRequests
            /\ requests' = [requests EXCEPT ![home.network] = @ + 1]
            /\ loading' = TRUE
            /\ effect' = [effect EXCEPT !.due = ~loading,
                                        !.deps = IF comp.name = "TM" THEN home.network ELSE @]
       ELSE /\ effect' = [effect EXCEPT !.due = FALSE]
            /\ UNCHANGED <<requests, loading>>
    /\ UNCHANGED <<routeVars, comp, items, listVars, home>>

\* a load request returned: setTrustlines / setBalances, setLoading(false)
LoadReturned ==
    /\ \E n \in HomeNetworks :
         /\ requests[n] > 0
         /\ requests' = [requests EXCEPT ![n] = @ - 1]
         /\ effect' = [effect EXCEPT !.due = TRUE, !.shownFor = n]
    /\ \E result \in LoadResults : HookLoaded(result)
    /\ UNCHANGED <<routeVars, comp, listVars, home>>

----------------------------------------------------------------------------
(* Specifications *)

RouteIdle ==
    /\ pc = "idle"
    /\ req = NoReq
    /\ calls = <<>>
    /\ account = NoAccount
    /\ record = NoRecord
    /\ tx = <<>>
    /\ resp = NoResp
    /\ horizonError = NoError
    /\ page = NoPage

Unmounted ==
    /\ items = <<>>
    /\ selected = {}
    /\ balanceActions = {}
    /\ processing = 0
    /\ bulkFlag = FALSE
    /\ bulk = BulkIdle
    /\ inflight = EmptyBag
    /\ loads = NoLoads
    /\ loading = FALSE

\* Home before Connect Account
LoggedOut ==
    /\ home = [secretKey |-> EmptySecret, isAuthenticated |-> FALSE, error |-> <<>>,
               network |-> "public", last |-> "none"]
    /\ requests = NoRequests
    /\ effect = NoEffect

\* a request arrives at one of the routes
Init == RouteIdle /\ comp = TM /\ Unmounted /\ LoggedOut

Next ==
    \/ Post
    \/ AccountFailed
    \/ AccountLoaded
    \/ BalanceFailed
    \/ BalanceLoaded
    \/ SubmitOk
    \/ SubmitFailed
    \/ ClaimableFailed
    \/ ClaimableListed
    \/ HistoryFailed
    \/ HistoryListed

Spec == Init /\ [][Next]_vars

\* one of the list components has just been mounted
InitUI == RouteIdle /\ comp \in Comps /\ Unmounted /\ LoggedOut

NextUI ==
    \/ ToggleSelect
    \/ ToggleSelectAll
    \/ ClearSelection
    \/ SingleClick
    \/ SingleResponse
    \/ SingleReloaded
    \/ BulkClick
    \/ BulkResponse
    \/ BulkReloaded
    \/ LoadClick
    \/ ButtonLoaded
    \/ EffectLoad
    \/ EffectLoaded

SpecUI == InitUI /\ [][NextUI]_vars

\* Home is opened; comp is the component of the tab that is shown
InitPage == RouteIdle /\ comp \in {TM, UCB} /\ Unmounted /\ LoggedOut

\* what the user does on the page
UserAction ==
    \/ TypeSecret
    \/ Authenticate
    \/ Logout
    \/ SetNetwork

NextPage ==
    \/ TypeSecret
    \/ Authenticate
    \/ Logout
    \/ SetNetwork
    \/ Render
    \/ LoadReturned

SpecPage == InitPage /\ [][NextPage]_vars

\* React renders a component whose state changed, and every load request
\* returns
SpecPageLive == SpecPage /\ WF_vars(Render) /\ WF_vars(LoadReturned)

----------------------------------------------------------------------------
(* Claims about the route handlers (specification Spec) *)

\* the body of the request that is being handled
Body == req.body
Handling(op) == pc # "idle" /\ req.op = op

\* the secret is not empty and fails the prefix/length test
Malformed(s) == s.len > 0 /\ PreCheckFails(s)

\* C1 as claimed: in each of the four transaction operations, a request that
\* has all its required fields and whose secret does not start with 'S' or is
\* not 56 long ends with the "Invalid secret key format" failure (status 400)
\* and no Horizon call has been issued.
C1_MalformedSecretRejectedEverywhere ==
    (pc # "idle" /\ ~RequiredMissing(req.op, Body) /\ Malformed(Body.secretKey))
        => (pc = "done" /\ resp = InvalidSecret /\ calls = <<>>)

\* C2: in the routes that make the prefix/length pre-check (remove, claim,
\* reject), a request whose secret passes the pre-check and then fails
\* Keypair.fromSecret ends, before any Horizon call, with the same response
\* (message and status) that the same request gets with a secret that fails
\* the pre-check.
C2_DerivationFailureLikePreCheck ==
    (/\ pc # "idle"
     /\ req.op \in {"remove", "claim", "reject"}
     /\ ~RequiredMissing(req.op, Body)
     /\ Body.network \in {"public", "testnet"}
     /\ ~PreCheckFails(Body.secretKey)
     /\ ~FromSecretOk(Body.secretKey))
        => /\ pc = "done"
           /\ calls = <<>>
           /\ resp.status = 400
           /\ \A s \in Secrets :
                Malformed(s) => resp = Validate(req.op, [Body EXCEPT !.secretKey = s])

\* C2 witness: remove answered a request whose secret is 'S' plus 55 characters
\* that do not decode
C2_Witness ==
    /\ Handling("remove")
    /\ pc = "done"
    /\ Body.secretKey = [first |-> "S", len |-> SecretLen, checksumOk |-> FALSE]
    /\ Body.network = "testnet"
    /\ Body.assetCode = "USD"
    /\ Body.assetIssuer = Issuer

\* the balance lines of the snapshot that match the requested asset
MatchingLines ==
    {i \in 1..Len(account.balances) :
        /\ account.balances[i].asset_code = Body.assetCode
        /\ account.balances[i].asset_issuer = Body.assetIssuer}

RequestedAsset == Asset(<<Body.assetCode>>, <<Body.assetIssuer>>)

\* C3: when remove has loaded a snapshot with a line for the asset whose
\* amount is not zero, the transaction it builds is exactly: a payment of that
\* line's whole balance of the asset to the issuer, then a change-trust of the
\* asset with limit "0".
C3_RemovePaysBackThenRevokes ==
    (Handling("remove") /\ account.loaded)
        => \A i \in MatchingLines :
             ~IsZeroAmount(account.balances[i].balance)
                => tx = <<Payment(Body.assetIssuer, RequestedAsset, account.balances[i].balance),
                          ChangeTrust(RequestedAsset, Zero1)>>

\* C3 witness: remove submitted for a trustline that holds 10.5
C3_Witness ==
    /\ Handling("remove")
    /\ pc = "submit"
    /\ \E i \in MatchingLines : account.balances[i].balance = Ten5

\* C4 as claimed: when remove has loaded a snapshot with no line for the asset,
\* or with a line whose amount is zero however it is written, the transaction
\* it builds is exactly the change-trust with limit "0".
C4_RemoveWithoutBalanceOnlyRevokes ==
    (Handling("remove") /\ account.loaded
        /\ \A i \in MatchingLines : IsZeroAmount(account.balances[i].balance))
        => tx = <<ChangeTrust(RequestedAsset, Zero1)>>

UsdAsset == Asset(<<"USD">>, <<Issuer>>)

\* C5 as claimed: when reject has loaded the record, the transaction it builds
\* is, for a CODE:ISSUER asset, trust-establish, claim, payment to the sponsor,
\* trust-remove; and for the native asset, claim, payment to the sponsor.
C5_RejectPlanShape ==
    (Handling("reject") /\ record.loaded)
        => /\ record.asset = AssetCredit
                => tx = <<ChangeTrust(UsdAsset, MaxLimit),
                          ClaimClaimableBalance(Body.balanceId),
                          Payment(record.sponsor, UsdAsset, record.amount),
                          ChangeTrust(UsdAsset, Zero1)>>
           /\ record.asset = AssetNative
                => tx = <<ClaimClaimableBalance(Body.balanceId),
                          Payment(record.sponsor, NativeAsset, record.amount)>>

\* C6: when claim has loaded the record, the transaction it builds is, for the
\* native asset, the claim of the balance id alone; and for a CODE:ISSUER
\* asset, a change-trust of that asset at the maximum limit followed by the
\* claim of the balance id.
C6_ClaimPlanShape ==
    (Handling("claim") /\ record.loaded)
        => /\ record.asset = AssetNative
                => tx = <<ClaimClaimableBalance(Body.balanceId)>>
           /\ record.asset = AssetCredit
                => tx = <<ChangeTrust(UsdAsset, MaxLimit),
                          ClaimClaimableBalance(Body.balanceId)>>

\* C6 witness: claim submitted for a record of a CODE:ISSUER asset
C6_Witness ==
    /\ Handling("claim")
    /\ pc = "submit"
    /\ record.asset = AssetCredit
    /\ Len(tx) = 2

\* how many times a call was issued
Count(seq, x) == Cardinality({i \in 1..Len(seq) : seq[i] = x})

\* the last Horizon call that was issued ("" : none)
LastCall == IF calls = <<>> THEN "" ELSE calls[Len(calls)]

\* C11: an invocation calls submitTransaction at most once, also when the
\* submission failed; it has not called it when the account is not loaded or,
\* for claim and reject, when the record is not loaded; an invocation that ended
\* in a failed loadAccount or record load has no submit among its calls.
C11_SubmitAtMostOnce ==
    /\ Count(calls, "submit") <= 1
    /\ ~account.loaded => Count(calls, "submit") = 0
    /\ (req.op \in {"claim", "reject"} /\ ~record.loaded) => Count(calls, "submit") = 0
    /\ (pc = "done" /\ horizonError # NoError /\ LastCall \in {"loadAccount", "loadBalance"})
          => Count(calls, "submit") = 0

\* C11 witness: reject ended after its submission failed with a transport error
C11_Witness ==
    /\ Handling("reject")
    /\ pc = "done"
    /\ horizonError = NetworkError
    /\ calls = <<"loadAccount", "loadBalance", "submit">>

\* C12 as claimed: when submitTransaction failed with an error that carries
\* result codes, the error of the response contains those result codes.
C12_ResultCodesPreserved ==
    (pc = "done" /\ LastCall = "submit" /\ horizonError.codes # "")
        => Includes(resp.error, horizonError.codes)

\* C13 as claimed: when the load of the caller's account failed in a transaction
\* route, the response is a failure that names the account ("Account error: ...").
C13_AccountFailureReportedAsSuch ==
    (pc = "done" /\ req.op \in TxOps /\ LastCall = "loadAccount" /\ horizonError # NoError)
        => /\ resp.status >= 400
           /\ resp.error # <<>>
           /\ Head(resp.error) = "Account error:"

\* C14 as claimed: a request whose network is neither "public" nor "testnet"
\* (a missing one included) ends with a failure and no Horizon call, in all
\* seven routes.
C14_UnsupportedNetworkRejected ==
    (pc # "idle" /\ req.json /\ Body.network \notin {"public", "testnet"})
        => (pc = "done" /\ resp.status >= 400 /\ calls = <<>>)

\* C15: a handler that has ended has returned a response, which is either a
\* success payload (status 200, no error) or a failure payload with an error
\* message; this includes the requests whose body could not be parsed, whose
\* secret did not decode, whose Horizon call threw and whose operation could
\* not be constructed.
C15_EveryInvocationAnswers ==
    pc = "done" =>
        /\ resp # NoResp
        /\ \/ resp.status = 200 /\ resp.error = <<>>
           \/ resp.status >= 400 /\ resp.error # <<>>

\* C15 witness: reject answered a request whose body was not JSON
C15_Witness ==
    /\ Handling("reject")
    /\ pc = "done"
    /\ ~req.json
    /\ resp.status = 500

\* the positions in the fetched page of the records the caller can claim
ClaimablePositions == {j \in 1..Len(page.records) : PublicKey \in page.records[j].claimants}

\* C16: the balances returned by claimable/load are exactly the records of the
\* fetched page that have the caller among their claimants: each returned
\* balance is such a record, each such record is returned, once.
C16_ListIsCallersRecords ==
    (pc = "done" /\ req.op = "loadClaimable" /\ page.loaded)
        => /\ \A i \in 1..Len(resp.data) :
                \E j \in ClaimablePositions : page.records[j].id = resp.data[i].id
           /\ \A j \in ClaimablePositions :
                \E i \in 1..Len(resp.data) : resp.data[i].id = page.records[j].id
           /\ Len(resp.data) = Cardinality(ClaimablePositions)

\* C16 witness: a page was listed of which one record was kept and one, claimable
\* by someone else only, was dropped
C16_Witness ==
    /\ pc = "done"
    /\ req.op = "loadClaimable"
    /\ Len(resp.data) >= 1
    /\ \E j \in 1..Len(page.records) : page.records[j].claimants = {Sponsor}

\* the fields the claim calls required: secret, network and the inputs of the
\* operation; for history the public identity and the network
ClaimedRequiredMissing(op, b) ==
    CASE op = "remove" ->
            b.secretKey.len = 0 \/ b.network = "" \/ b.assetCode = "" \/ b.assetIssuer = ""
      [] op \in {"claim", "reject"} ->
            b.secretKey.len = 0 \/ b.network = "" \/ b.balanceId = ""
      [] op = "send" ->
            b.secretKey.len = 0 \/ b.network = "" \/ b.recipientAddress = ""
                \/ b.assetCode = "" \/ b.amount = <<>>
      [] op \in {"loadTrustlines", "loadClaimable"} ->
            b.secretKey.len = 0 \/ b.network = ""
      [] op = "history" ->
            b.address = "" \/ b.network = ""

\* C17 as claimed: a request in which a required field is missing ends with a
\* status-400 failure and no Horizon call, in all seven routes.  Stated for
\* requests whose secret is missing or decodes, so that the outcome is due to
\* the missing field alone.
C17_MissingFieldRejected ==
    (/\ pc # "idle"
     /\ req.json
     /\ ClaimedRequiredMissing(req.op, Body)
     /\ (Body.secretKey.len = 0 \/ FromSecretOk(Body.secretKey)))
        => (pc = "done" /\ resp.status = 400 /\ calls = <<>>)

\* C20 as claimed: when send has a credential that decodes, all its inputs and
\* the loaded source account, the transaction it built is the single payment of
\* the amount of the asset to the recipient, and it was submitted once.
C20_SendBuildsOnePayment ==
    (/\ Handling("send")
     /\ req.json
     /\ account.loaded
     /\ ~RequiredMissing("send", Body)
     /\ (Body.assetCode = "XLM" \/ Body.assetIssuer # ""))
        => /\ tx = SendPlan(Body)
           /\ Count(calls, "submit") = 1

\* C21 as claimed: a send whose submission failed because the destination
\* account does not exist ends with the "Recipient account not found" failure,
\* and a send that ends with that failure failed for that reason.
C21_RecipientNotFoundClassified ==
    (Handling("send") /\ pc = "done")
        => /\ horizonError = NoDestinationError => resp = RecipientNotFound
           /\ resp = RecipientNotFound => horizonError = NoDestinationError

\* the handler has reached the lines that build the transaction
ReachedBuild ==
    /\ req.op \in TxOps
    /\ req.json
    /\ CASE req.op = "remove" -> account.loaded
         [] req.op \in {"claim", "reject"} -> record.loaded
         [] req.op = "send" -> account.loaded /\ (Body.assetCode = "XLM" \/ Body.assetIssuer # "")

\* C22 as claimed: when a transaction operation reaches transaction building,
\* the selector of the request names public or testnet, the passphrase given
\* to the builder is the one of that network and is defined, and the Horizon
\* endpoint of the calls is the one of that network.
C22_NetworkBinding ==
    ReachedBuild
        => /\ Body.network \in {"public", "testnet"}
           /\ NetworkPassphrase(req.op, Body.network) # Undefined
           /\ NetworkPassphrase(req.op, Body.network) = NETWORKS(Body.network)
           /\ ServerUrl(req.op, Body.network) = SERVERS(Body.network)

\* the asset string of a record is "native" or CODE:ISSUER
WellFormed(a) == a = AssetNative \/ (Truthy(a) /\ Len(Split(a)) = 2)

\* C23: when reject has submitted, it has submitted once, and the transaction
\* holds the claim of the balance id followed by a payment of the record's
\* whole amount to the record's sponsor, in the record's asset (native for
\* "native", the CODE:ISSUER asset otherwise).
C23_RejectClaimsAndRefundsTogether ==
    (Handling("reject") /\ Count(calls, "submit") > 0)
        => /\ Count(calls, "submit") = 1
           /\ \E i, j \in 1..Len(tx) :
                /\ i < j
                /\ tx[i] = ClaimClaimableBalance(Body.balanceId)
                /\ tx[j].type = "payment"
                /\ tx[j].destination = record.sponsor
                /\ tx[j].amount = record.amount
                /\ record.asset = AssetNative => tx[j].asset = NativeAsset
                /\ record.asset = AssetCredit => tx[j].asset = UsdAsset

\* C23 witness: a reject of a CODE:ISSUER balance was submitted and accepted
C23_Witness ==
    /\ Handling("reject")
    /\ pc = "done"
    /\ resp.success
    /\ record.asset = AssetCredit

\* C24: claim builds and submits the claim transaction for every record that
\* loaded, the caller being among its claimants or not; and the listing
\* returns no record whose claimants lack the caller.
C24_ClaimHasNoEligibilityCheck ==
    /\ (Handling("claim") /\ record.loaded)
          => /\ tx = ClaimPlan(record, Body.balanceId)
             /\ Count(calls, "submit") = 1
    /\ (Handling("loadClaimable") /\ page.loaded)
          => \A i \in 1..Len(resp.data) :
                PublicKey \in page.records[resp.data[i].id].claimants

\* C24 witness: a claim was submitted and accepted for a record whose
\* claimants do not include the caller
C24_Witness ==
    /\ Handling("claim")
    /\ pc = "done"
    /\ resp.success
    /\ PublicKey \notin record.claimants

\* C25: a record whose asset string is neither "native" nor CODE:ISSUER never
\* ends composition in an exception: claim and reject go on to submit, with no
\* change-trust at the maximum limit in the transaction (claim: the claim
\* alone), and the listing returns such a record of the caller as XLM / native.
C25_MalformedAssetIsNative ==
    /\ (req.op \in {"claim", "reject"} /\ record.loaded /\ ~WellFormed(record.asset))
          => /\ Count(calls, "submit") = 1
             /\ horizonError \in {NoError} \cup SubmitErrors
             /\ \A i \in 1..Len(tx) : ~(tx[i].type = "changeTrust" /\ tx[i].limit = MaxLimit)
             /\ req.op = "claim" => tx = <<ClaimClaimableBalance(Body.balanceId)>>
    /\ (Handling("loadClaimable") /\ page.loaded)
          => /\ resp.status = 200
             /\ Len(resp.data) = Cardinality(ClaimablePositions)
             /\ \A i \in 1..Len(resp.data) :
                  ~WellFormed(page.records[resp.data[i].id].asset)
                      => /\ resp.data[i].asset = <<"XLM">>
                         /\ resp.data[i].assetIssuer = <<"native">>

\* C25 witness: a reject was submitted for a record whose asset string has
\* three parts
C25_Witness ==
    /\ Handling("reject")
    /\ pc = "submit"
    /\ record.asset = AssetThree

\* C26: the Horizon calls of a transaction operation are a prefix of: account
\* load, (claim, reject) record load, submit; the record load is issued with
\* the account loaded, and submit with every lookup returned and the
\* transaction built.
C26_CallsInOrder ==
    (pc # "idle" /\ req.op \in TxOps)
        => LET expected == IF req.op \in {"claim", "reject"}
                           THEN <<"loadAccount", "loadBalance", "submit">>
                           ELSE <<"loadAccount", "submit">>
           IN  /\ Len(calls) <= Len(expected)
               /\ calls = SubSeq(expected, 1, Len(calls))
               /\ Count(calls, "loadBalance") > 0 => account.loaded
               /\ Count(calls, "submit") > 0
                    => /\ account.loaded
                       /\ req.op \in {"claim", "reject"} => record.loaded
                       /\ tx # <<>>

\* C26 witness: a reject has issued its three calls
C26_Witness ==
    /\ Handling("reject")
    /\ calls = <<"loadAccount", "loadBalance", "submit">>

----------------------------------------------------------------------------
(* Claims about the bulk runs (specification SpecUI) *)

TargetIds == [i \in 1..Len(bulk.targets) |-> bulk.targets[i].id]

\* the loop of the bulk handler is over, its locals are still alive
LoopFinished == bulk.pc = "reload"

\* C7: when the loop of a bulk run is over, successCount plus the number of
\* failure messages is the number of targets of the run, whatever mix of ok
\* responses, error responses and thrown errors occurred; while the loop runs,
\* the sum is the number of targets already settled.
C7_BulkReportAddsUp ==
    /\ LoopFinished =>
          /\ bulk.successCount + Len(bulk.errors) = Len(bulk.targets)
          /\ Len(bulk.attempted) = Len(bulk.targets)
    /\ bulk.pc = "fetch" =>
          bulk.successCount + Len(bulk.errors) = bulk.idx - 1

\* C7 witness: a run of MaxItems targets is over in which a fetch succeeded,
\* one got an error response and one threw
C7_Witness ==
    /\ LoopFinished
    /\ Len(bulk.targets) = MaxItems
    /\ Range(bulk.outcomes) = Outcomes

\* C8: in a bulk run the targets are fetched once each, in the order of the
\* list, whatever the earlier fetches ended in: the fetched targets are always
\* the first idx targets and, when the loop is over, all of them; each target
\* that failed has its message, in order.  For 3 targets of which only the
\* second fails: successCount 2, one message, for target 2, target 3 fetched.
C8_EveryTargetOnceInOrder ==
    /\ bulk.pc = "fetch" => bulk.attempted = SubSeq(TargetIds, 1, bulk.idx)
    /\ LoopFinished =>
          /\ bulk.attempted = TargetIds
          /\ Len(bulk.outcomes) = Len(bulk.targets)
          /\ [i \in 1..Len(bulk.errors) |-> bulk.errors[i].id]
                = SelectSeq(TargetIds,
                            LAMBDA id : \E i \in 1..Len(TargetIds) :
                                            TargetIds[i] = id /\ bulk.outcomes[i] # "ok")
    /\ (LoopFinished /\ Len(bulk.targets) = 3
            /\ bulk.outcomes[1] = "ok" /\ bulk.outcomes[2] # "ok" /\ bulk.outcomes[3] = "ok")
          => /\ bulk.successCount = 2
             /\ Len(bulk.errors) = 1
             /\ bulk.errors[1].id = bulk.targets[2].id
             /\ bulk.attempted[3] = bulk.targets[3].id

\* C8 witness: a bulk reject over 3 targets is over, only the second failed
C8_Witness ==
    /\ LoopFinished
    /\ comp = CBReject
    /\ bulk.outcomes = <<"ok", "http", "ok">>

\* C9: at most one fetch of a bulk run is in flight; the fetch for a target is
\* issued only when the fetches of all earlier targets have settled.
C9_BulkIsSequential ==
    /\ InFlight("bulk") <= 1
    /\ bulk.pc = "fetch" =>
          /\ InFlight("bulk") = 1
          /\ Len(bulk.attempted) = Len(bulk.outcomes) + 1
    /\ bulk.pc # "fetch" => InFlight("bulk") = 0

\* C9 witness: the bulk run awaits its second target
C9_Witness ==
    /\ bulk.pc = "fetch"
    /\ bulk.idx = 2
    /\ Len(bulk.targets) = MaxItems

\* C10 as claimed: in every state of a list component at most one fetch to a
\* transaction route is in flight, single-item and bulk together.
C10_OneOperationInFlight ==
    InFlight("single") + InFlight("bulk") <= 1

----------------------------------------------------------------------------
(* Claims about the requests of the client (specification SpecUI) *)

\* C18 as claimed: no request of the client that is in flight, to a transaction
\* route or to a load route, has the secret key among the fields of its body.
C18_SecretNeverSent ==
    /\ \A k \in ReqKinds : inflight[k] > 0 => "secretKey" \notin RequestFields(k.action)
    /\ \A c \in LoadCallers : loads[c] > 0 => "secretKey" \notin RequestFields("load")

\* C19: the step that ends a bulk run leaves the selection empty, the
\* bulk-in-progress flag false, no per-target action choice and none of the
\* locals of the run (successCount, errors, targets); and the step that starts
\* a bulk run starts from such a state, with successCount 0 and no errors.
C19_BulkRunLeavesNothing ==
    [][/\ (bulk.pc = "reload" /\ bulk'.pc = "idle")
            => /\ selected' = {}
               /\ ~bulkFlag'
               /\ balanceActions' = {}
               /\ bulk' = BulkIdle
       /\ (bulk.pc = "idle" /\ bulk'.pc # "idle")
            => /\ bulk = BulkIdle
               /\ ~bulkFlag
               /\ bulk'.successCount = 0
               /\ bulk'.errors = <<>>
               /\ bulk'.outcomes = <<>>]_vars

\* C19 witness: the loop of a bulk run with successes and failures is over and
\* the run is about to end
C19_Witness ==
    /\ bulk.pc = "reload"
    /\ bulkFlag
    /\ bulk.successCount > 0
    /\ Len(bulk.errors) > 0

\* C28 as claimed: every identifier in the selection is the identifier of an
\* item of the loaded list.
C28_SelectionWithinList ==
    selected \subseteq Range(items)

----------------------------------------------------------------------------
(* Claims about the Home page (specifications SpecPage, SpecPageLive) *)

\* the component is mounted, no load is awaited and no render is due
Quiescent == ~loading /\ PendingRequests = 0 /\ ~effect.due

\* C27 as claimed: unless the user keeps acting on the page, a mounted
\* UnifiedClaimableBalances eventually stays in a state with loading false,
\* no load request awaited and no render or effect due.
C27_AutoLoadQuiesces ==
    \/ <>[]((comp = UCB /\ home.isAuthenticated) => Quiescent)
    \/ []<><<UserAction>>_vars

\* C29 as claimed: when TrustlineManager is mounted, no load request is
\* awaited and no render is due, the list on display is the result of the
\* load issued for the selected network.
C29_ListIsOfSelectedNetwork ==
    (comp = TM /\ home.isAuthenticated /\ Quiescent)
        => effect.shownFor = home.network

\* C30: isAuthenticated is true only with a secret key that starts with 'S'
\* and is 56 long; after logout the secret key is empty and isAuthenticated
\* false; after a failed authentication attempt isAuthenticated is false and
\* the error message is set.
C30_AuthenticatedOnlyWithWellFormedKey ==
    /\ home.isAuthenticated
          => (StartsWithS(home.secretKey) /\ home.secretKey.len = SecretLen)
    /\ home.last = "logout"
          => (home.secretKey = EmptySecret /\ ~home.isAuthenticated)
    /\ (home.last = "authenticate" /\ ~home.isAuthenticated)
          => home.error # <<>>

\* C30 witness: an attempt with a key of 55 characters has just failed
C30_Witness ==
    /\ home.last = "authenticate"
    /\ ~home.isAuthenticated
    /\ home.secretKey.first = "S"
    /\ home.secretKey.len = SecretLen - 1
    /\ home.error = InvalidFormat

====
